---- MODULE Spec2Model ----
(***************************************************************************)
(* Model of neox-tools: the rotor stream cipher (core/rotor.py), the       *)
(* per-entry scramble codecs, the content sniffer, the NPK container       *)
(* parser, the parallel extraction driver and the batch driver             *)
(* process_multiple_npk_files (core/extractor.py).                         *)
(*                                                                         *)
(* Python lists and bytes objects are sequences; index i of Python is      *)
(* index i + 1 here.  An operation that can raise returns a record with    *)
(* a field `raised` naming the exception ("" when it returned).            *)
(***************************************************************************)
EXTENDS Integers, Sequences, FiniteSets, TLC

VARIABLES
    \* ---- NewRotor (core/rotor.py) ----
    rotors,        \* self.rotors: None or [e_rotors, d_rotors, size, positions]
    positions,     \* self.positions: <<encrypt side, decrypt side>>; <<>> is None,
                   \* <<pos>> a list
    r_pc,          \* which call of the session decrypt(encrypt(B)) comes next
    r_buf,         \* the buffer B handed to encrypt
    r_enc,         \* outcome of encrypt(B)
    r_dec,         \* outcome of decrypt(encrypt(B))
    \* ---- NPKExtractor._decrypt_file_data applied twice ----
    s_info,        \* the FileInfo record (flag, crc, original_length, length)
    s_data,        \* the buffer of `length` bytes
    s_once,        \* outcome of the first application
    s_twice,       \* outcome of the second application
    s_pc,          \* how many applications were made
    \* ---- NPKExtractor.unpack (core/extractor.py) ----
    input,             \* what the container was made of (never read by the program)
    npk,               \* the bytes of the container file
    no_nxfn,           \* self.no_nxfn
    delete_compressed, \* self.delete_compressed
    pc,                \* where the driver thread is
    f_pos,             \* position of the container handle f
    ftype,             \* file_type of unpack
    index_table,       \* index_table of unpack
    sub_i,             \* entries submitted so far
    tasks,             \* futures, one per entry
    yielded,           \* futures as_completed has yielded
    progress,          \* values handed to progress_callback, in order
    caught,            \* exception caught by unpack ("" if none)
    escaped,           \* exception that left unpack ("" if none)
    disk,              \* output_dir and what is below it
    \* ---- process_multiple_npk_files (core/extractor.py) ----
    m_total,           \* total_files = len(npk_files); 0 when no batch runs
    m_child,           \* m_child[k]: future of npk_files[k] for k > 1 (the
                       \* future of npk_files[1] is the unpack run above)
    m_yielded,         \* futures as_completed has yielded
    m_n,               \* pbar.n
    m_progress,        \* values handed to progress_callback, in order
    m_pc,              \* where process_multiple_npk_files is
    \* ---- get_file_extension applied to one buffer ----
    sn_row,            \* row of extension_map the buffer was made from
    sn_data,           \* the buffer
    sn_ext,            \* what get_file_extension returned
    sn_pc,             \* "in" before the call, "out" after it
    \* ---- RotorFactory.create applied to one size and one rand ----
    c_size,            \* the size argument
    c_draws,           \* what rand returns, call by call
    c_rotor,           \* the Rotor that create returned
    c_pc               \* "in" before the call, "out" after it

rotorVars == <<rotors, positions, r_pc, r_buf, r_enc, r_dec>>
scrVars == <<s_info, s_data, s_once, s_twice, s_pc>>
unpackVars == <<input, npk, no_nxfn, delete_compressed, pc, f_pos, ftype,
                index_table, sub_i, tasks, yielded, progress, caught, escaped, disk>>
multiVars == <<m_total, m_child, m_yielded, m_n, m_progress, m_pc>>
sniffVars == <<sn_row, sn_data, sn_ext, sn_pc>>
createVars == <<c_size, c_draws, c_rotor, c_pc>>
vars == <<rotorVars, scrVars, unpackVars, multiVars, sniffVars, createVars>>

None == "None"

\* ------------------------------------------------------------------------
\* Bounds of the model
\* ------------------------------------------------------------------------
RotorSize == 4     \* symbols of the rotor alphabet (256 in the source)
NRotors == 2       \* n_rotors handed to NewRotor (default 6)
MaxBufLen == 1     \* longest buffer handed to encrypt
ScrSpread == 2     \* scrambled lengths run 0..ScrSpread and 128..129+ScrSpread
MaxSeed == 1       \* buffer contents are patterns seeded 0..MaxSeed
MaxEntries == 2    \* most entries in a container
MaxNames == 2      \* most names in an NXFN table
max_workers == 2   \* threads of the pool (os.cpu_count() in the source)
MaxFiles == 2      \* most containers handed to process_multiple_npk_files
PadTo == 32        \* sniffed buffers are a prefix padded with zeros up to PadTo bytes

\* ------------------------------------------------------------------------
\* Python helpers
\* ------------------------------------------------------------------------
\* a ^ b of Python on non-negative integers
RECURSIVE Xor(_, _)
Xor(a, b) ==
    IF a = 0 THEN b
    ELSE IF b = 0 THEN a
    ELSE (((a % 2) + (b % 2)) % 2) + 2 * Xor(a \div 2, b \div 2)

\* list[i]: IndexError unless -len <= i < len
PyInRange(list, i) == i >= -Len(list) /\ i < Len(list)
PyGet(list, i) == IF i >= 0 THEN list[i + 1] ELSE list[Len(list) + i + 1]
PySet(list, i, v) == [list EXCEPT ![i + 1] = v]

\* reversed(list)
Reversed(list) == [k \in 1..Len(list) |-> list[Len(list) + 1 - k]]

Min(a, b) == IF a < b THEN a ELSE b
Max(a, b) == IF a > b THEN a ELSE b

\* all sequences over S of length at most n
SeqsUpTo(S, n) == UNION {[1..k -> S] : k \in 0..n}

\* ------------------------------------------------------------------------
\* core/rotor.py
\* ------------------------------------------------------------------------
size == RotorSize

Symbols == 0..(size - 1)

\* @dataclass Rotor
Rotor(sz, inc, e, d) == [size |-> sz, increment |-> inc, erotor |-> e, drotor |-> d]

\* The draws one RotorFactory.create makes from rand: rand(size // 2), then
\* rand(i + 1) for i = size-1 .. 1.  rand(n) lies in [0, n); which value the
\* key yields is left open.
CreateDraws(sz) ==
    {d \in [0..(sz - 1) -> 0..(sz - 1)] :
        /\ d[0] < sz \div 2
        /\ \A i \in 1..(sz - 1) : d[i] <= i}

\* the loop `for i in range(size - 1, 0, -1)` of RotorFactory.create
RECURSIVE create_loop(_, _, _, _)
create_loop(e, d, i, draws) ==
    IF i < 1 THEN [erotor |-> e, drotor |-> d]
    ELSE LET r  == draws[i]
             e2 == PySet(PySet(e, r, PyGet(e, i)), i, PyGet(e, r))
             d2 == PySet(d, PyGet(e2, i), i)
         IN  create_loop(e2, d2, i - 1, draws)

\* RotorFactory.create without the closing `drotor[erotor[0]] = 0`
create_without_slot0(sz, draws) ==
    LET increment == 1 + 2 * draws[0]
        e0 == [k \in 1..(sz + 1) |-> IF k = sz + 1 THEN increment ELSE k - 1]
        l  == create_loop(e0, e0, sz - 1, draws)
    IN  Rotor(sz, increment, l.erotor, l.drotor)

\* RotorFactory.create(size, rand); draws[0] is the draw for the increment
create(sz, draws) ==
    LET increment == 1 + 2 * draws[0]
        e0 == [k \in 1..(sz + 1) |-> IF k = sz + 1 THEN increment ELSE k - 1]
        l  == create_loop(e0, e0, sz - 1, draws)
        d1 == PySet(l.drotor, PyGet(l.erotor, 0), 0)
    IN  Rotor(sz, increment, l.erotor, d1)

\* NewRotor._initialize_rotors: positions first, then each rotor
initialize_rotors(posDraws, rotorDraws) ==
    LET made == [k \in 1..NRotors |-> create(size, rotorDraws[k])]
    IN  [e_rotors |-> made,
         d_rotors |-> [k \in 1..NRotors |->
                          Rotor(size, made[k].increment, made[k].drotor, made[k].erotor)],
         size |-> size,
         positions |-> posDraws]

\* one pass of `for rotor in rotors: c = rotor.erotor[c ^ pos[rotor.size - 1]]`
RECURSIVE encrypt_byte(_, _, _, _)
encrypt_byte(c, rs, pos, k) ==
    IF k > Len(rs) THEN [raised |-> "", c |-> c]
    ELSE LET rotor == rs[k] IN
         IF ~PyInRange(pos, rotor.size - 1) THEN [raised |-> "IndexError", c |-> c]
         ELSE LET j == Xor(c, PyGet(pos, rotor.size - 1)) IN
              IF ~PyInRange(rotor.erotor, j) THEN [raised |-> "IndexError", c |-> c]
              ELSE encrypt_byte(PyGet(rotor.erotor, j), rs, pos, k + 1)

\* one pass of `for rotor in reversed(rotors): c = pos[rotor.size - 1] ^ rotor.drotor[c]`
RECURSIVE decrypt_byte(_, _, _, _)
decrypt_byte(c, rs, pos, k) ==
    IF k < 1 THEN [raised |-> "", c |-> c]
    ELSE LET rotor == rs[k] IN
         IF ~PyInRange(pos, rotor.size - 1) THEN [raised |-> "IndexError", c |-> c]
         ELSE IF ~PyInRange(rotor.drotor, c) THEN [raised |-> "IndexError", c |-> c]
         ELSE decrypt_byte(Xor(PyGet(pos, rotor.size - 1), PyGet(rotor.drotor, c)),
                           rs, pos, k - 1)

\* the carry loop `for i, rotor in enumerate(rotors)` of _crypt
RECURSIVE advance(_, _, _, _, _)
advance(pos, rs, sz, i, carry) ==
    IF i >= Len(rs) THEN pos
    ELSE LET pnew == PyGet(pos, i) + rs[i + 1].increment + carry
         IN  advance(PySet(pos, i, pnew % sz), rs, sz, i + 1,
                     IF pnew >= sz THEN 1 ELSE 0)

\* NewRotor._crypt over buffer[k..], given the bytes emitted so far
RECURSIVE crypt_from(_, _, _, _, _, _, _)
crypt_from(buffer, k, do_decrypt, sz, rs, pos, out) ==
    IF k > Len(buffer) THEN [raised |-> "", out |-> out, pos |-> pos]
    ELSE LET b == IF do_decrypt THEN decrypt_byte(buffer[k], rs, pos, Len(rs))
                  ELSE encrypt_byte(buffer[k], rs, pos, 1)
         IN  IF b.raised # "" THEN [raised |-> b.raised, out |-> out, pos |-> pos]
             ELSE crypt_from(buffer, k + 1, do_decrypt, sz, rs,
                             advance(pos, rs, sz, 0, 0), Append(out, b.c))

\* NewRotor._get_rotors followed by NewRotor._crypt; `rot` is self.rotors
\* (already initialised), `side` is self.positions[do_decrypt] (<<>> for None)
crypt(buffer, do_decrypt, rot, side) ==
    LET pos == IF side = <<>> THEN rot.positions ELSE side[1]
        rs  == IF do_decrypt THEN rot.d_rotors ELSE rot.e_rotors
    IN  crypt_from(buffer, 1, do_decrypt, rot.size, rs, pos, <<>>)


\* ------------------------------------------------------------------------
\* core/extractor.py: scramble codecs (flags 3 and 4)
\* ------------------------------------------------------------------------
\* flag 3: `for j in range(size): data[start + j] ^= key[j % len(key)]`
\* with key = [(x + b) & 0xFF for x in range(0x100)].  Iteration j touches
\* index start + j only, so the loop is written index by index; it raises at
\* the first start + j outside the buffer.
flag3_loop(data, start, sz, b) ==
    IF \E j \in 0..(sz - 1) : ~PyInRange(data, start + j)
    THEN [raised |-> "IndexError", data |-> data]
    ELSE [raised |-> "",
          data |-> [k \in 1..Len(data) |->
                      LET j == (k - 1) - start IN
                      IF j >= 0 /\ j < sz
                      THEN Xor(data[k], ((j % 256) + b) % 256)
                      ELSE data[k]]]

\* flag 4: `for i in range(offset, stop): data[i] ^= key; key = (key + 1) & 0xFF`
\* Iteration i touches index i with key (key0 + i - offset) & 0xFF.
flag4_loop(data, offset, stop, key) ==
    IF \E i \in offset..(stop - 1) : ~PyInRange(data, i)
    THEN [raised |-> "IndexError", data |-> data]
    ELSE [raised |-> "",
          data |-> [k \in 1..Len(data) |->
                      LET i == k - 1 IN
                      IF i >= offset /\ i < stop
                      THEN Xor(data[k], (key + (i - offset)) % 256)
                      ELSE data[k]]]

\* flag 3 with `data[start + j] = key[...]` in place of `^=`
flag3_loop_assign(data, start, sz, b) ==
    IF \E j \in 0..(sz - 1) : ~PyInRange(data, start + j)
    THEN [raised |-> "IndexError", data |-> data]
    ELSE [raised |-> "",
          data |-> [k \in 1..Len(data) |->
                      LET j == (k - 1) - start IN
                      IF j >= 0 /\ j < sz
                      THEN ((j % 256) + b) % 256
                      ELSE data[k]]]

decrypt_file_data_assign(data, file_info) ==
    IF file_info.flag = 3 THEN
        LET b     == Xor(file_info.crc, file_info.original_length)
            start == IF file_info.length > 128
                     THEN (file_info.crc \div 2) % (file_info.length - 128)
                     ELSE 0
            sz    == IF file_info.length > 128
                     THEN ((2 * file_info.original_length) % 96) + 32
                     ELSE file_info.length
        IN  flag3_loop_assign(data, start, sz, b)
    ELSE [raised |-> "", data |-> data]

\* _decrypt_file_data without the `% (length - 0x80)` reduction of start and
\* offset
decrypt_file_data_unreduced(data, file_info) ==
    IF file_info.flag = 3 THEN
        LET b     == Xor(file_info.crc, file_info.original_length)
            start == IF file_info.length > 128 THEN file_info.crc \div 2 ELSE 0
            sz    == IF file_info.length > 128
                     THEN ((2 * file_info.original_length) % 96) + 32
                     ELSE file_info.length
        IN  flag3_loop(data, start, sz, b)
    ELSE IF file_info.flag = 4 THEN
        LET offset == IF file_info.length >= 129
                      THEN file_info.original_length \div 2
                      ELSE 0
            length == IF file_info.length >= 129
                      THEN ((file_info.crc * 2) % 96) + 32
                      ELSE file_info.length
            key    == Xor(file_info.original_length, file_info.crc) % 256
        IN  flag4_loop(data, offset,
                       Min(offset + length, file_info.original_length), key)
    ELSE [raised |-> "", data |-> data]

\* NPKExtractor._decrypt_file_data.  crc and original_length are drawn below
\* 2^30, where `(crc << 1) & 0xFFFFFFFF` keeps every bit of crc << 1.
decrypt_file_data(data, file_info) ==
    IF file_info.flag = 3 THEN
        LET b     == Xor(file_info.crc, file_info.original_length)
            start == IF file_info.length > 128
                     THEN (file_info.crc \div 2) % (file_info.length - 128)
                     ELSE 0
            sz    == IF file_info.length > 128
                     THEN ((2 * file_info.original_length) % 96) + 32
                     ELSE file_info.length
        IN  flag3_loop(data, start, sz, b)
    ELSE IF file_info.flag = 4 THEN
        LET offset == IF file_info.length >= 129
                      THEN (file_info.original_length \div 2) % (file_info.length - 128)
                      ELSE 0
            length == IF file_info.length >= 129
                      THEN ((file_info.crc * 2) % 96) + 32
                      ELSE file_info.length
            key    == Xor(file_info.original_length, file_info.crc) % 256
        IN  flag4_loop(data, offset,
                       Min(offset + length, file_info.original_length), key)
    ELSE [raised |-> "", data |-> data]

\* ------------------------------------------------------------------------
\* core/extractor.py: content sniffer
\* ------------------------------------------------------------------------
\* data[a:b] of Python (negative bounds count from the end, both are clamped)
PySlice(data, a, b) ==
    LET n  == Len(data)
        lo == IF a < 0 THEN Max(n + a, 0) ELSE Min(a, n)
        hi == IF b < 0 THEN Max(n + b, 0) ELSE Min(b, n)
    IN  IF hi <= lo THEN <<>> ELSE SubSeq(data, lo + 1, hi)

\* data.startswith(prefix)
StartsWith(data, prefix) ==
    Len(data) >= Len(prefix) /\ SubSeq(data, 1, Len(prefix)) = prefix

\* needle in data
Contains(data, needle) ==
    \E k \in 1..(Len(data) - Len(needle) + 1) :
        SubSeq(data, k, k + Len(needle) - 1) = needle

\* data.lower()
Lower(data) ==
    [k \in 1..Len(data) |->
        IF data[k] >= 65 /\ data[k] <= 90 THEN data[k] + 32 ELSE data[k]]

\* extension_map, in insertion order
extension_map == <<
    <<<<67, 111, 99, 111, 115, 83, 116, 117, 100, 105, 111, 45, 85, 73>>, "coc">>,
    <<<<40, 181, 47, 253>>, "zst">>,
    <<<<83, 75, 69, 76, 69, 84, 79, 78>>, "skeleton">>,
    <<<<37>>, "tpl">>,
    <<<<123>>, "json">>,
    <<<<104, 105, 116>>, "hit">>,
    <<<<80, 75, 77>>, "pkm">>,
    <<<<80, 86, 82>>, "pvr">>,
    <<<<68, 68, 83>>, "dds">>,
    <<<<66, 77>>, "bmp">>,
    <<<<102, 114, 111, 109, 32, 116, 121, 112, 105, 110, 103, 32, 105, 109, 112, 111, 114, 116, 32>>, "pyi">>,
    <<<<75, 84, 88>>, "ktx">>,
    <<<<80, 78, 71>>, "png">>,
    <<<<86, 65, 78, 84>>, "vant">>,
    <<<<77, 68, 77, 80>>, "mdmp">>,
    <<<<82, 71, 73, 83>>, "gis">>,
    <<<<78, 84, 82, 75>>, "ntrk">>,
    <<<<82, 73, 70, 70>>, "riff">>,
    <<<<66, 75, 72, 68>>, "bnk">>,
    <<<<45, 45, 45, 45, 45, 66, 69, 71, 73, 78, 32, 80, 85, 66, 76, 73, 67, 32, 75, 69, 89, 45, 45, 45, 45, 45>>, "pem">>,
    <<<<60>>, "xml">>,
    <<<<80, 75, 3, 4>>, "zip">>,
    <<<<80, 75, 5, 6>>, "zip">>,
    <<<<52, 128, 200, 187>>, "mesh">>,
    <<<<20, 0, 0, 0>>, "type1">>,
    <<<<4, 0, 0, 0>>, "type2">>,
    <<<<0, 1, 0, 0>>, "type3">>,
    <<<<227, 0, 0, 0>>, "pyc">>,
    <<<<99, 0, 0, 0>>, "pyc">>
>>

\* `for prefix, ext in extension_map.items(): if data.startswith(prefix): return ext`
RECURSIVE first_prefix(_, _)
first_prefix(data, k) ==
    IF k > Len(extension_map) THEN None
    ELSE IF StartsWith(data, extension_map[k][1]) THEN extension_map[k][2]
    ELSE first_prefix(data, k + 1)

kw_truevision == <<84, 82, 85, 69, 86, 73, 83, 73, 79, 78, 45, 88, 70, 73, 76, 69>>  \* b'TRUEVISION-XFILE'
kw_nxs3 == <<78, 88, 83, 51, 3, 0, 0, 1>>  \* b'NXS3\x03\x00\x00\x01'
kw_proto == <<112, 97, 99, 107, 97, 103, 101, 32, 103, 111, 111, 103, 108, 101, 46, 112, 114, 111, 116, 111, 98, 117, 102>>  \* b'package google.protobuf'
kw_h == <<35, 105, 102, 110, 100, 101, 102, 32, 103, 111, 111, 103, 108, 101, 95, 112, 114, 111, 116, 111, 98, 117, 102>>  \* b'#ifndef google_protobuf'
kw_cc == <<35, 105, 110, 99, 108, 117, 100, 101, 32, 60, 103, 111, 111, 103, 108, 101, 47, 112, 114, 111, 116, 111, 98, 117, 102>>  \* b'#include <google/protobuf'
kw_void == <<118, 111, 105, 100>>  \* b'void'
kw_main == <<109, 97, 105, 110, 40>>  \* b'main('
kw_include == <<105, 110, 99, 108, 117, 100, 101>>  \* b'include'
kw_float == <<102, 108, 111, 97, 116>>  \* b'float'
kw_technique == <<116, 101, 99, 104, 110, 105, 113, 117, 101>>  \* b'technique'
kw_ifndef == <<105, 102, 110, 100, 101, 102>>  \* b'ifndef'
kw_xml == <<63, 120, 109, 108>>  \* b'?xml'
kw_script == <<60, 115, 99, 114, 105, 112, 116>>  \* b'<script'
kw_javascript == <<106, 97, 118, 97, 115, 99, 114, 105, 112, 116>>  \* b'javascript'
kw_biped == <<98, 105, 112, 101, 100>>  \* b'biped'
kw_bip001 == <<98, 105, 112, 48, 48, 49>>  \* b'bip001'
kw_bone == <<98, 111, 110, 101>>  \* b'bone'
kw_bone001 == <<98, 111, 110, 101, 48, 48, 49>>  \* b'bone001'
kw_bip01 == <<98, 105, 112, 48, 49>>  \* b'bip01'
kw_css == <<100, 105, 118, 46, 100, 111, 99, 117, 109, 101, 110, 116>>  \* b'div.document'

\* get_file_extension with the two-byte "rot" rule tried before the prefix table
get_file_extension_rot_first(data) ==
    IF data = <<>> THEN "none"
    ELSE IF PySlice(data, 0, 2) \in {<<40, 181>>, <<29, 4>>, <<21, 35>>} THEN "rot"
    ELSE IF first_prefix(data, 1) # None THEN first_prefix(data, 1)
    ELSE "dat"

\* get_file_extension(data)
get_file_extension(data) ==
    IF data = <<>> THEN "none"
    ELSE IF first_prefix(data, 1) # None THEN first_prefix(data, 1)
    ELSE IF \/ PySlice(data, -18, -2) = kw_truevision
            \/ PySlice(data, 0, 3) \in {<<0, 0, 2>>, <<13, 0, 2>>}
         THEN "tga"
    ELSE IF PySlice(data, 0, 2) \in {<<40, 181>>, <<29, 4>>, <<21, 35>>} THEN "rot"
    ELSE IF PySlice(data, 7, 15) = kw_nxs3 THEN "nxs3"
    ELSE IF Len(data) < 1000000 THEN
        LET lower_data == Lower(data) IN
        IF Contains(lower_data, kw_proto) THEN "proto"
        ELSE IF Contains(lower_data, kw_h) THEN "h"
        ELSE IF Contains(lower_data, kw_cc) THEN "cc"
        ELSE IF \E keyword \in {kw_void, kw_main, kw_include, kw_float} :
                    Contains(lower_data, keyword) THEN "shader"
        ELSE IF Contains(lower_data, kw_technique) \/ Contains(lower_data, kw_ifndef)
             THEN "shader"
        ELSE IF Contains(lower_data, kw_xml) THEN "xml"
        ELSE IF Contains(lower_data, kw_script) THEN "html"
        ELSE IF Contains(lower_data, kw_javascript) THEN "js"
        ELSE IF \E keyword \in {kw_biped, kw_bip001, kw_bone, kw_bone001, kw_bip01} :
                    Contains(lower_data, keyword) THEN "model"
        ELSE IF Contains(lower_data, kw_css) THEN "css"
        ELSE "dat"
    ELSE "dat"

\* the characters of each extension get_file_extension returns
ExtChars == [bmp |-> <<98, 109, 112>>,
    bnk |-> <<98, 110, 107>>,
    cc |-> <<99, 99>>,
    coc |-> <<99, 111, 99>>,
    css |-> <<99, 115, 115>>,
    dat |-> <<100, 97, 116>>,
    dds |-> <<100, 100, 115>>,
    gis |-> <<103, 105, 115>>,
    h |-> <<104>>,
    hit |-> <<104, 105, 116>>,
    html |-> <<104, 116, 109, 108>>,
    js |-> <<106, 115>>,
    json |-> <<106, 115, 111, 110>>,
    ktx |-> <<107, 116, 120>>,
    mdmp |-> <<109, 100, 109, 112>>,
    mesh |-> <<109, 101, 115, 104>>,
    model |-> <<109, 111, 100, 101, 108>>,
    none |-> <<110, 111, 110, 101>>,
    ntrk |-> <<110, 116, 114, 107>>,
    nxs3 |-> <<110, 120, 115, 51>>,
    pem |-> <<112, 101, 109>>,
    pkm |-> <<112, 107, 109>>,
    png |-> <<112, 110, 103>>,
    proto |-> <<112, 114, 111, 116, 111>>,
    pvr |-> <<112, 118, 114>>,
    pyc |-> <<112, 121, 99>>,
    pyi |-> <<112, 121, 105>>,
    riff |-> <<114, 105, 102, 102>>,
    rot |-> <<114, 111, 116>>,
    shader |-> <<115, 104, 97, 100, 101, 114>>,
    skeleton |-> <<115, 107, 101, 108, 101, 116, 111, 110>>,
    tga |-> <<116, 103, 97>>,
    tpl |-> <<116, 112, 108>>,
    type1 |-> <<116, 121, 112, 101, 49>>,
    type2 |-> <<116, 121, 112, 101, 50>>,
    type3 |-> <<116, 121, 112, 101, 51>>,
    vant |-> <<118, 97, 110, 116>>,
    xml |-> <<120, 109, 108>>,
    zip |-> <<122, 105, 112>>,
    zst |-> <<122, 115, 116>>]


\* ------------------------------------------------------------------------
\* Output directory.  A path is the sequence of its parts below output_dir;
\* fs.out says whether output_dir exists, fs.dirs holds the directories and
\* fs.files the files (path and content) below it.
\* ------------------------------------------------------------------------
EmptyFs == [out |-> FALSE, dirs |-> {}, files |-> {}]

IsFile(fs, p) == \E e \in fs.files : e.path = p
IsDir(fs, p) == IF p = <<>> THEN fs.out ELSE p \in fs.dirs
FileData(fs, p) == (CHOOSE e \in fs.files : e.path = p).data

Parent(p) == SubSeq(p, 1, Len(p) - 1)
Prefixes(p) == {SubSeq(p, 1, k) : k \in 1..Len(p)}

\* Path.mkdir(parents=True, exist_ok=True)
mkdir_parents(fs, dir) ==
    IF \E q \in Prefixes(dir) : IsFile(fs, q)
    THEN [raised |-> "FileExistsError", fs |-> fs]
    ELSE [raised |-> "", fs |-> [fs EXCEPT !.out = TRUE, !.dirs = @ \cup Prefixes(dir)]]

\* Path.write_bytes(data)
write_bytes(fs, p, data) ==
    IF IsDir(fs, p) THEN [raised |-> "IsADirectoryError", fs |-> fs]
    ELSE IF ~IsDir(fs, Parent(p)) THEN [raised |-> "FileNotFoundError", fs |-> fs]
    ELSE [raised |-> "",
          fs |-> [fs EXCEPT !.files = {e \in @ : e.path # p}
                                       \cup {[path |-> p, data |-> data]}]]

\* Path.unlink()
unlink(fs, p) ==
    IF ~IsFile(fs, p) THEN [raised |-> "FileNotFoundError", fs |-> fs]
    ELSE [raised |-> "", fs |-> [fs EXCEPT !.files = {e \in @ : e.path # p}]]

\* Path.rmdir() of output_dir: OSError unless the directory is empty
rmdir(fs) ==
    IF ~fs.out THEN [raised |-> "FileNotFoundError", fs |-> fs]
    ELSE IF fs.dirs # {} \/ fs.files # {} THEN [raised |-> "OSError", fs |-> fs]
    ELSE [raised |-> "", fs |-> [fs EXCEPT !.out = FALSE]]

\* PurePath.suffix of a name: from the last dot, unless that dot is the first
\* or the last character
Suffix(name) ==
    LET dots == {k \in 1..Len(name) : name[k] = 46} IN
    IF dots = {} THEN <<>>
    ELSE LET i == CHOOSE k \in dots : \A j \in dots : j <= k IN
         IF i > 1 /\ i < Len(name) THEN SubSeq(name, i, Len(name)) ELSE <<>>

\* Path.with_suffix(suffix)
with_suffix(p, suffix) ==
    LET name == p[Len(p)]
        stem == SubSeq(name, 1, Len(name) - Len(Suffix(name)))
    IN  [p EXCEPT ![Len(p)] = stem \o suffix]

\* the pieces of data between separators, without the empty pieces
RECURSIVE split_nonempty(_, _, _, _)
split_nonempty(data, sep, k, cur) ==
    IF k > Len(data) THEN (IF cur = <<>> THEN <<>> ELSE <<cur>>)
    ELSE IF data[k] = sep
         THEN (IF cur = <<>> THEN <<>> ELSE <<cur>>) \o split_nonempty(data, sep, k + 1, <<>>)
         ELSE split_nonempty(data, sep, k + 1, Append(cur, data[k]))

\* output_dir / structure.decode().replace("\\", "/"), as parts below
\* output_dir ("." parts are dropped by pathlib)
structure_path(structure) ==
    LET replaced == [k \in 1..Len(structure) |->
                        IF structure[k] = 92 THEN 47 ELSE structure[k]]
        parts == split_nonempty(replaced, 47, 1, <<>>)
    IN  SelectSeq(parts, LAMBDA part : part # <<46>>)

\* str(n)
RECURSIVE Digits(_)
Digits(n) == IF n < 10 THEN <<48 + n>> ELSE Digits(n \div 10) \o <<48 + (n % 10)>>

\* f"{index:08}.{ext}"
synthetic_name(index, ext) ==
    LET d == Digits(index)
        pad == [k \in 1..Max(8 - Len(d), 0) |-> 48]
    IN  pad \o d \o <<46>> \o ExtChars[ext]

\* ------------------------------------------------------------------------
\* External codecs: what the libraries return on the payloads of the model
\* ------------------------------------------------------------------------
p_hello == <<104, 101, 108, 108, 111>>                           \* b"hello"
p_world == <<119, 111, 114, 108, 100>>                           \* b"world"
p_json == <<123, 32, 34, 107, 34, 58, 32, 49, 32, 125>>          \* b'{ "k": 1 }'
p_zlib_json == <<120, 156, 1, 2>>         \* a zlib stream that inflates to p_json
p_zlib_bad == <<120, 156, 255, 255>>      \* a corrupt zlib stream
p_zst == <<40, 181, 47, 253, 7>>          \* a Zstandard frame holding p_world
p_nxs3 == <<1, 2, 3, 4, 5, 6, 7>> \o kw_nxs3    \* an NXS3 blob
p_decoded == <<100, 101, 99>>             \* what de_nxs3 writes for p_nxs3
p_zip == <<80, 75, 3, 4, 9>>              \* a ZIP archive with one member
p_lz4 == <<240, 1, 2>>                    \* an LZ4 block holding p_hello

\* zlib.decompress
zlib_decompress(data) ==
    IF data = p_zlib_json THEN [raised |-> "", data |-> p_json]
    ELSE [raised |-> "zlib.error", data |-> data]

\* lz4.block.decompress(data, uncompressed_size=n)
lz4_decompress(data, n) ==
    IF data = p_lz4 /\ Len(p_hello) <= n THEN [raised |-> "", data |-> p_hello]
    ELSE [raised |-> "LZ4BlockError", data |-> data]

\* zstandard.ZstdDecompressor().decompress
zstd_decompress(data) ==
    IF data = p_zst THEN [raised |-> "", data |-> p_world]
    ELSE [raised |-> "ZstdError", data |-> data]

\* zipfile.ZipFile(path, "r"): the members of an archive
zip_members(data) ==
    IF data = p_zip THEN [raised |-> "", members |-> {[path |-> <<<<109>>>>, data |-> p_hello]}]
    ELSE [raised |-> "BadZipFile", members |-> {}]

\* what running ./de_nxs3 can do
ToolOutcomes == {"ok", "nonzero_exit", "no_output"}

\* ------------------------------------------------------------------------
\* core/extractor.py: entry pipeline
\* ------------------------------------------------------------------------

\* the rotor init_rotor() builds for the fixed key (the draws of that key are
\* not computed; every rand call is taken to yield 0)
init_rotor ==
    initialize_rotors([k \in 1..NRotors |-> 0],
                      [k \in 1..NRotors |-> [i \in 0..(size - 1) |-> 0]])

\* NPKExtractor._reverse_string
reverse_string(s) ==
    Reversed([k \in 1..Len(s) |-> IF k <= 128 THEN Xor(s[k], 154) ELSE s[k]])

\* NPKExtractor._process_rot_file
process_rot_file(data) ==
    LET dec == crypt(data, TRUE, init_rotor, <<>>) IN
    IF dec.raised # "" THEN [raised |-> dec.raised, data |-> data]
    ELSE LET inflated == zlib_decompress(dec.out) IN
         IF inflated.raised # "" THEN inflated
         ELSE [raised |-> "", data |-> reverse_string(inflated.data)]

\* NPKExtractor._process_nxs3_file; `tool` is what the subprocess does
process_nxs3_file(data, tool) ==
    IF tool = "nonzero_exit" THEN [raised |-> "CalledProcessError", data |-> data]
    ELSE IF tool = "no_output" THEN [raised |-> "FileNotFoundError", data |-> data]
    ELSE [raised |-> "", data |-> p_decoded]

\* NPKExtractor._decompress_data
decompress_data(data, compression_type, original_length) ==
    IF compression_type = 1 THEN zlib_decompress(data)
    ELSE IF compression_type = 2 THEN lz4_decompress(data, original_length)
    ELSE [raised |-> "", data |-> data]

\* an outcome of the pipeline, with the sniff of line 200 and the stages
\* that were entered, in order
WithExt(s, ext, stages) ==
    [raised |-> s.raised, data |-> s.data, ext |-> ext, stages |-> stages]

\* lines 207-212 of _process_file_data; s2 is the outcome of lines 202-205
process_file_data_decoded(data, file_info, ext, s2, stages) ==
    IF s2.raised # ""
    THEN [raised |-> s2.raised, data |-> data, ext |-> ext, stages |-> stages]
    ELSE IF file_info.compression_type # 0 /\ ext # "rot"
         THEN WithExt(decompress_data(s2.data, file_info.compression_type,
                                      file_info.original_length), ext,
                      Append(stages, "decompress"))
         ELSE WithExt(s2, ext, stages)

\* lines 202-205 of _process_file_data; s1 is the outcome of lines 197-198
process_file_data_sniffed(data, file_info, tool, s1, ext, stages) ==
    process_file_data_decoded(data, file_info, ext,
        IF ext = "rot" THEN process_rot_file(s1.data)
        ELSE IF ext = "nxs3" THEN process_nxs3_file(s1.data, tool)
        ELSE s1,
        IF ext = "rot" THEN Append(stages, "rot")
        ELSE IF ext = "nxs3" THEN Append(stages, "nxs3")
        ELSE stages)

\* line 200 of _process_file_data
process_file_data_scrambled(data, file_info, tool, s1, stages) ==
    IF s1.raised # ""
    THEN [raised |-> s1.raised, data |-> data, ext |-> None, stages |-> stages]
    ELSE process_file_data_sniffed(data, file_info, tool, s1,
                                   get_file_extension(s1.data),
                                   Append(stages, "sniff"))

\* NPKExtractor._process_file_data; the ext field is the sniff of line 200
process_file_data(data, file_info, tool) ==
    process_file_data_scrambled(data, file_info, tool,
        IF file_info.flag \in {3, 4} THEN decrypt_file_data(data, file_info)
        ELSE [raised |-> "", data |-> data],
        IF file_info.flag \in {3, 4} THEN <<"scramble">> ELSE <<>>)

\* file_path without the `not self.no_nxfn` test of line 295
file_path_nxfn_always(ext, file_info, index) ==
    IF file_info.structure # <<>> /\ file_info.structure[1] # <<>>
    THEN [raised |-> "", path |-> structure_path(file_info.structure[1])]
    ELSE [raised |-> "", path |-> <<synthetic_name(index, ext)>>]

\* lines 293-300 of NPKExtractor._save_file: the path an entry is written at
file_path(ext, file_info, index) ==
    IF file_info.structure # <<>> /\ file_info.structure[1] # <<>> /\ ~no_nxfn
    THEN IF \E k \in 1..Len(file_info.structure[1]) : file_info.structure[1][k] >= 128
         THEN [raised |-> "UnicodeDecodeError", path |-> <<>>]
         ELSE [raised |-> "", path |-> structure_path(file_info.structure[1])]
    ELSE [raised |-> "", path |-> <<synthetic_name(index, ext)>>]

\* ------------------------------------------------------------------------
\* core/extractor.py: byte readers and container parser
\* ------------------------------------------------------------------------
\* position of the handle after seek(p); read(k) on a file of n bytes
AfterRead(n, p, k) == IF p >= n THEN p ELSE Min(p + k, n)

b_NXPK == <<78, 88, 80, 75>>
b_EXPK == <<69, 88, 80, 75>>

\* struct.pack("I", n) and struct.pack("H", n), little-endian
U32(n) == <<n % 256, (n \div 256) % 256, (n \div 65536) % 256, (n \div 16777216) % 256>>
U16(n) == <<n % 256, (n \div 256) % 256>>

\* NPKExtractor._read_uint32 at position p of `data`: struct.error when fewer
\* than 4 bytes are left
read_uint32(data, p) ==
    LET b == PySlice(data, p, p + 4) IN
    IF Len(b) # 4 THEN [raised |-> "struct.error", v |-> 0]
    ELSE [raised |-> "", v |-> b[1] + 256 * b[2] + 65536 * b[3] + 16777216 * b[4]]

\* NPKExtractor._read_uint16 at position p of `data`
read_uint16(data, p) ==
    LET b == PySlice(data, p, p + 2) IN
    IF Len(b) # 2 THEN [raised |-> "struct.error", v |-> 0]
    ELSE [raised |-> "", v |-> b[1] + 256 * b[2]]

\* a reader that takes any four bytes for the NXPK signature
read_file_type_any(f) ==
    LET data == PySlice(f, 0, 4) IN
    IF data = b_EXPK THEN [raised |-> "", v |-> "EXPK"]
    ELSE [raised |-> "", v |-> "NXPK"]

\* NPKExtractor._read_file_type
read_file_type(f) ==
    LET data == PySlice(f, 0, 4) IN
    IF data = b_NXPK THEN [raised |-> "", v |-> "NXPK"]
    ELSE IF data = b_EXPK THEN [raised |-> "", v |-> "EXPK"]
    ELSE [raised |-> "ValueError", v |-> None]

\* the first exception among outcomes, in the order the code evaluates them
FirstRaised(rs) ==
    IF \E k \in 1..Len(rs) : rs[k].raised # ""
    THEN rs[CHOOSE k \in 1..Len(rs) :
                /\ rs[k].raised # ""
                /\ \A j \in 1..(k - 1) : rs[j].raised = ""].raised
    ELSE ""

\* the header reads of NPKExtractor.unpack (lines 69-74)
read_header(f) ==
    LET file_type       == read_file_type(f)
        file_count      == read_uint32(f, 4)
        unknown         == read_uint32(f, 8)
        encryption_mode == read_uint32(f, 12)
        hash_mode       == read_uint32(f, 16)
        index_offset    == read_uint32(f, 20)
    IN  [raised |-> FirstRaised(<<file_type, file_count, unknown, encryption_mode,
                                  hash_mode, index_offset>>),
         file_type |-> file_type.v,
         file_count |-> file_count.v,
         encryption_mode |-> encryption_mode.v,
         index_offset |-> index_offset.v,
         pos |-> IF file_type.raised # "" THEN Min(4, Len(f))
                 ELSE IF index_offset.raised # "" THEN Len(f)
                 ELSE 24]

\* NPKExtractor._read_nxfn_files
read_nxfn_files(f, file_count, index_offset, encryption_mode) ==
    IF encryption_mode # 256 THEN <<>>
    ELSE split_nonempty(PySlice(f, index_offset + (file_count * 28) + 16, Len(f)), 0, 1, <<>>)

\* Keys.decrypt of neox_tools.core.key: byte in, byte out, in 16-byte blocks
KeysDecrypt(data) ==
    [k \in 1..Len(data) |-> Xor(data[k], (((k - 1) % 16) * 17 + 3) % 256)]

\* _read_file_info keeping the compression field as the integer read, without
\* CompressionType(...)
read_file_info_any_compression(tmp, i, structure) ==
    LET base            == 28 * i
        sign            == read_uint32(tmp, base)
        offset          == read_uint32(tmp, base + 4)
        length          == read_uint32(tmp, base + 8)
        original_length == read_uint32(tmp, base + 12)
        zcrc            == read_uint32(tmp, base + 16)
        crc             == read_uint32(tmp, base + 20)
        compression     == read_uint16(tmp, base + 24)
        flag            == read_uint16(tmp, base + 26)
    IN  [raised |-> FirstRaised(<<structure, sign, offset, length, original_length,
                                  zcrc, crc, compression, flag>>),
         info |-> [sign |-> <<sign.v, base + 4>>,
                   offset |-> offset.v,
                   length |-> length.v,
                   original_length |-> original_length.v,
                   zcrc |-> zcrc.v,
                   crc |-> crc.v,
                   structure |-> structure.v,
                   compression_type |-> compression.v,
                   flag |-> flag.v]]

\* NPKExtractor._read_file_info on record i of the index block `tmp`;
\* `structure` is [raised, v], the outcome of `nxfn_files[i] if nxfn_files else None`
\* (v is <<>> for None and <<name>> for a name)
read_file_info(tmp, i, structure) ==
    LET base            == 28 * i
        sign            == read_uint32(tmp, base)
        offset          == read_uint32(tmp, base + 4)
        length          == read_uint32(tmp, base + 8)
        original_length == read_uint32(tmp, base + 12)
        zcrc            == read_uint32(tmp, base + 16)
        crc             == read_uint32(tmp, base + 20)
        compression     == read_uint16(tmp, base + 24)
        ctype           == IF compression.raised # "" THEN compression
                           ELSE IF compression.v \in {0, 1, 2} THEN compression
                           ELSE [raised |-> "ValueError", v |-> compression.v]
        flag            == read_uint16(tmp, base + 26)
    IN  [raised |-> FirstRaised(<<structure, sign, offset, length, original_length,
                                  zcrc, crc, ctype, flag>>),
         info |-> [sign |-> <<sign.v, base + 4>>,
                   offset |-> offset.v,
                   length |-> length.v,
                   original_length |-> original_length.v,
                   zcrc |-> zcrc.v,
                   crc |-> crc.v,
                   structure |-> structure.v,
                   compression_type |-> ctype.v,
                   flag |-> flag.v]]

\* the list comprehension of NPKExtractor._read_index_table, from record i on
RECURSIVE read_records(_, _, _, _, _)
read_records(tmp, i, file_count, nxfn_files, acc) ==
    IF i >= file_count THEN [raised |-> "", table |-> acc]
    ELSE LET structure == IF nxfn_files = <<>> THEN [raised |-> "", v |-> <<>>]
                          ELSE IF PyInRange(nxfn_files, i)
                               THEN [raised |-> "", v |-> <<PyGet(nxfn_files, i)>>]
                               ELSE [raised |-> "IndexError", v |-> <<>>]
             rec == read_file_info(tmp, i, structure)
         IN  IF rec.raised # "" THEN [raised |-> rec.raised, table |-> acc]
             ELSE read_records(tmp, i + 1, file_count, nxfn_files, Append(acc, rec.info))

\* NPKExtractor._read_index_table
read_index_table(f, file_count, index_offset, file_type, nxfn_files) ==
    LET raw  == PySlice(f, index_offset, index_offset + file_count * 28)
        data == IF file_type = "EXPK" THEN KeysDecrypt(raw) ELSE raw
    IN  read_records(data, 0, file_count, nxfn_files, <<>>)

\* lines 79-81 of NPKExtractor.unpack; h is the outcome of the header reads
\* and t that of _read_index_table
parse_index(f, h, t) ==
    [raised |-> t.raised, file_type |-> h.file_type,
     table |-> IF t.raised = "" THEN t.table ELSE <<>>,
     pos |-> AfterRead(Len(f), h.index_offset, h.file_count * 28)]

\* lines 76-81 of NPKExtractor.unpack
parse_body(f, h) ==
    IF h.raised # ""
    THEN [raised |-> h.raised, file_type |-> None, table |-> <<>>, pos |-> h.pos]
    ELSE parse_index(f, h,
             read_index_table(f, h.file_count, h.index_offset, h.file_type,
                              read_nxfn_files(f, h.file_count, h.index_offset,
                                              h.encryption_mode)))

\* lines 69-81 of NPKExtractor.unpack: header, NXFN list, index table
parse_container(f) == parse_body(f, read_header(f))


\* a future of the pool: st is "none" before submit, then "queued", then
\* "zst2" / "zip2" / "zip3" while _save_file is between two file operations,
\* then "done" or "failed" (exc names the exception the future holds)
NoTask ==
    [st |-> "none", data |-> <<>>, exc |-> "", ext0 |-> None, ext |-> None,
     path |-> <<>>, wrote |-> {}, tool |-> None, stages |-> <<>>]

Failed(t, exc) == [t EXCEPT !.st = "failed", !.exc = exc]

\* lines 307-309 of _save_file: decompress the frame, write it at file_path
save_zst_final(t, fs) ==
    LET d == zstd_decompress(t.data) IN
    IF d.raised # "" THEN [task |-> Failed(t, d.raised), fs |-> fs]
    ELSE LET w == write_bytes(fs, t.path, d.data) IN
         IF w.raised # "" THEN [task |-> Failed(t, w.raised), fs |-> fs]
         ELSE [task |-> [t EXCEPT !.st = "done", !.wrote = @ \cup {t.path}],
               fs |-> w.fs]

\* ZipFile.extractall(dest): the members land below dest
extractall(fs, dest, members) ==
    LET mk == mkdir_parents(fs, dest) IN
    IF mk.raised # "" THEN mk
    ELSE LET targets == {[path |-> dest \o m.path, data |-> m.data] : m \in members}
             dirs == UNION {Prefixes(Parent(e.path)) : e \in targets}
         IN  [raised |-> "",
              fs |-> [mk.fs EXCEPT
                        !.dirs = @ \cup dirs,
                        !.files = {e \in @ : \A x \in targets : x.path # e.path}
                                  \cup targets]]

\* lines 312-313 of _save_file: open the archive just written and expand it
save_zip_extract(t, fs) ==
    IF ~IsFile(fs, t.path) THEN [task |-> Failed(t, "FileNotFoundError"), fs |-> fs]
    ELSE LET z == zip_members(FileData(fs, t.path)) IN
         IF z.raised # "" THEN [task |-> Failed(t, z.raised), fs |-> fs]
         ELSE LET x == extractall(fs, with_suffix(t.path, <<>>), z.members) IN
              IF x.raised # "" THEN [task |-> Failed(t, x.raised), fs |-> fs]
              ELSE [task |-> [t EXCEPT !.st = IF delete_compressed THEN "zip3"
                                              ELSE "done"],
                    fs |-> x.fs]

\* lines 314-315 of _save_file: remove the archive
save_zip_unlink(t, fs) ==
    LET u == unlink(fs, t.path) IN
    IF u.raised # "" THEN [task |-> Failed(t, u.raised), fs |-> fs]
    ELSE [task |-> [t EXCEPT !.st = "done"], fs |-> u.fs]

\* the task after one of the writes of _save_file; w is the outcome of
\* write_bytes at path p
after_write(t, fs, w, p, st) ==
    IF w.raised # "" THEN [task |-> Failed(t, w.raised), fs |-> fs]
    ELSE [task |-> [t EXCEPT !.st = st, !.wrote = @ \cup {p}], fs |-> w.fs]

\* the first write of _save_file (lines 304-317) once the parent directory
\* exists: the raw frame of a zst entry (line 306), or the data (lines 311
\* and 317)
save_first_write(t, fs) ==
    IF t.ext = "zst" /\ ~delete_compressed
    THEN after_write(t, fs,
                     write_bytes(fs, with_suffix(t.path, <<46, 122, 115, 116>>), t.data),
                     with_suffix(t.path, <<46, 122, 115, 116>>), "zst2")
    ELSE IF t.ext = "zst" THEN save_zst_final(t, fs)
    ELSE after_write(t, fs, write_bytes(fs, t.path, t.data), t.path,
                     IF t.ext = "zip" THEN "zip2" ELSE "done")

\* line 302 of _save_file; mk is the outcome of the mkdir
save_mkdir(t, fs, mk) ==
    IF mk.raised # "" THEN [task |-> Failed(t, mk.raised), fs |-> fs]
    ELSE save_first_write(t, mk.fs)

\* lines 295-302 of _save_file; fp is the outcome of building file_path
save_at(t, fs, fp) ==
    IF fp.raised # "" THEN [task |-> Failed(t, fp.raised), fs |-> fs]
    ELSE save_mkdir([t EXCEPT !.path = fp.path], fs, mkdir_parents(fs, Parent(fp.path)))

\* lines 293-300 of _save_file; ext is the sniff of line 293
save_file(t, file_info, index, fs, ext) ==
    save_at([t EXCEPT !.ext = ext], fs, file_path(ext, file_info, index))

\* line 194 of _process_and_save_file; pr is the outcome of _process_file_data
task_processed(t, file_info, index, fs, pr) ==
    IF pr.raised # ""
    THEN [task |-> Failed([t EXCEPT !.ext0 = pr.ext, !.stages = pr.stages], pr.raised),
          fs |-> fs]
    ELSE save_file([t EXCEPT !.ext0 = pr.ext, !.data = pr.data,
                             !.stages = Append(pr.stages, "final_sniff")],
                   file_info, index, fs, get_file_extension(pr.data))

\* NPKExtractor._process_and_save_file up to and including the first write
\* of _save_file; `tool` is what ./de_nxs3 does if it is run
task_begin(t, file_info, index, fs, tool) ==
    task_processed([t EXCEPT !.tool = tool], file_info, index, fs,
                   process_file_data(t.data, file_info, tool))

\* the rest of _save_file, one file operation at a time
task_continue(t, fs) ==
    IF t.st = "zst2" THEN save_zst_final(t, fs)
    ELSE IF t.st = "zip2" THEN save_zip_extract(t, fs)
    ELSE save_zip_unlink(t, fs)


\* ------------------------------------------------------------------------
\* State machines
\* ------------------------------------------------------------------------

\* no unpack in progress
UnpackIdle ==
    /\ input = None
    /\ npk = <<>>
    /\ no_nxfn = FALSE
    /\ delete_compressed = FALSE
    /\ pc = "off"
    /\ f_pos = 0
    /\ ftype = None
    /\ index_table = <<>>
    /\ sub_i = 0
    /\ tasks = <<>>
    /\ yielded = {}
    /\ progress = <<>>
    /\ caught = ""
    /\ escaped = ""
    /\ disk = EmptyFs

\* no batch in progress
MultiIdle ==
    /\ m_total = 0
    /\ m_child = <<>>
    /\ m_yielded = {}
    /\ m_n = 0
    /\ m_progress = <<>>
    /\ m_pc = "off"

\* no sniff in progress
SniffIdle ==
    /\ sn_row = 0
    /\ sn_data = <<>>
    /\ sn_ext = None
    /\ sn_pc = "off"

\* no create call in progress
CreateIdle ==
    /\ c_size = 0
    /\ c_draws = <<>>
    /\ c_rotor = None
    /\ c_pc = "off"

Buffers == SeqsUpTo(Symbols, MaxBufLen)

\* NewRotor.__init__
NewRotor ==
    /\ rotors = None
    /\ positions = <<<<>>, <<>>>>
    /\ r_pc = "new"
    /\ r_buf = <<>>
    /\ r_enc = None
    /\ r_dec = None

\* no scramble session
ScrIdle ==
    /\ s_info = None
    /\ s_data = <<>>
    /\ s_once = None
    /\ s_twice = None
    /\ s_pc = "off"

RotorInit == NewRotor /\ ScrIdle /\ UnpackIdle /\ MultiIdle /\ SniffIdle /\ CreateIdle

\* NewRotor.encrypt(buffer) on a new instance: the first call initialises
\* the rotors from the key's draws
Encrypt ==
    /\ r_pc = "new"
    /\ \E buffer \in Buffers, posDraws \in [1..NRotors -> Symbols],
          rotorDraws \in [1..NRotors -> CreateDraws(size)] :
          LET rot == initialize_rotors(posDraws, rotorDraws)
              res == crypt(buffer, FALSE, rot, <<>>)
          IN  /\ rotors' = rot
              /\ r_buf' = buffer
              /\ r_enc' = [raised |-> res.raised, out |-> res.out]
              /\ positions' = <<<<res.pos>>, positions[2]>>
              /\ r_pc' = IF res.raised = "" THEN "encrypted" ELSE "raised"
    /\ UNCHANGED <<r_dec, scrVars, unpackVars, multiVars, sniffVars, createVars>>

\* NewRotor.decrypt(buffer) applied to what encrypt returned
Decrypt ==
    /\ r_pc = "encrypted"
    /\ LET res == crypt(r_enc.out, TRUE, rotors, <<>>)
       IN  /\ r_dec' = [raised |-> res.raised, out |-> res.out]
           /\ positions' = <<positions[1], <<res.pos>>>>
           /\ r_pc' = IF res.raised = "" THEN "decrypted" ELSE "raised"
    /\ UNCHANGED <<rotors, r_buf, r_enc, scrVars, unpackVars, multiVars, sniffVars, createVars>>

RotorNext == Encrypt \/ Decrypt

SpecRotor == RotorInit /\ [][RotorNext]_vars

ScrLengths == (0..ScrSpread) \cup (128..(129 + ScrSpread)) \cup {250}
ScrCrcs == {0, 1, 2, 47, 255, 4660, 305419896, 1073741823}
ScrOrigLengths == {0, 1, 5, 47, 127, 256, 257, 1000}
Pattern(seed, n) == [k \in 1..n |-> (seed + 7 * k) % 256]

\* a record, and a buffer holding exactly `length` bytes
ScrStart ==
    /\ s_info \in [flag : {3, 4}, crc : ScrCrcs,
                   original_length : ScrOrigLengths, length : ScrLengths]
    /\ s_data \in {Pattern(seed, s_info.length) : seed \in 0..MaxSeed}
    /\ s_once = None
    /\ s_twice = None
    /\ s_pc = "in"

ScrInit == NewRotor /\ ScrStart /\ UnpackIdle /\ MultiIdle /\ SniffIdle /\ CreateIdle

\* _decrypt_file_data(data, file_info)
ScrambleOnce ==
    /\ s_pc = "in"
    /\ s_once' = decrypt_file_data(s_data, s_info)
    /\ s_pc' = IF s_once'.raised = "" THEN "once" ELSE "raised"
    /\ UNCHANGED <<s_info, s_data, s_twice, rotorVars, unpackVars, multiVars, sniffVars, createVars>>

\* _decrypt_file_data(_decrypt_file_data(data, file_info), file_info)
ScrambleTwice ==
    /\ s_pc = "once"
    /\ s_twice' = decrypt_file_data(s_once.data, s_info)
    /\ s_pc' = IF s_twice'.raised = "" THEN "twice" ELSE "raised"
    /\ UNCHANGED <<s_info, s_data, s_once, rotorVars, unpackVars, multiVars, sniffVars, createVars>>

ScrNext == ScrambleOnce \/ ScrambleTwice

SpecScramble == ScrInit /\ [][ScrNext]_vars


\* ------------------------------------------------------------------------
\* Containers handed to unpack
\* ------------------------------------------------------------------------
RECURSIVE Concat(_)
Concat(ss) == IF ss = <<>> THEN <<>> ELSE Head(ss) \o Concat(Tail(ss))

\* index-table entries the containers are made of: stored payload and the
\* compression, flag, crc and original_length fields of its record
e_plain == [payload |-> p_hello, compression |-> 0, flag |-> 0, crc |-> 0,
            original_length |-> 5]
e_zlib == [payload |-> p_zlib_json, compression |-> 1, flag |-> 0, crc |-> 0,
           original_length |-> 10]
e_zlib_bad == [payload |-> p_zlib_bad, compression |-> 1, flag |-> 0, crc |-> 0,
               original_length |-> 10]
e_zst == [payload |-> p_zst, compression |-> 0, flag |-> 0, crc |-> 0,
          original_length |-> 5]
e_nxs3 == [payload |-> p_nxs3, compression |-> 0, flag |-> 0, crc |-> 0,
           original_length |-> 15]

e_zip == [payload |-> p_zip, compression |-> 0, flag |-> 0, crc |-> 0,
          original_length |-> 5]

EntryKinds == {e_plain, e_zlib, e_zlib_bad, e_zst, e_nxs3, e_zip}

n_a_b_png == <<97, 92, 98, 46, 112, 110, 103>>     \* b"a\\b.png"
n_c == <<99>>                                      \* b"c"
Names == {n_a_b_png, n_c}

\* "NXPK" / "EXPK": a well-formed container of that type; "JUNK": the same
\* bytes under a foreign signature; "cut_header" / "cut_index": an NXPK file
\* that ends inside the header / inside the last index record;
\* "bad_compression": an NXPK file whose last index record carries 3 in its
\* compression field
Shapes == {"NXPK", "EXPK", "JUNK", "cut_header", "cut_index", "bad_compression"}

\* encryption_mode 256 comes with an NXFN table of the names, any other
\* mode (0 here) with none
Descriptors ==
    {d \in [shape : Shapes,
            encryption_mode : {0, 256},
            names : SeqsUpTo(Names, MaxNames),
            entries : SeqsUpTo(EntryKinds, MaxEntries)] :
        /\ d.shape \in {"cut_index", "bad_compression"} => d.entries # <<>>
        /\ d.encryption_mode = 0 => d.names = <<>>}

\* the bytes of the container a descriptor stands for
Build(d) ==
    LET n == Len(d.entries)
        expk == d.shape = "EXPK"
        stored == [i \in 1..n |-> IF expk THEN KeysDecrypt(d.entries[i].payload)
                                  ELSE d.entries[i].payload]
        body == Concat(stored)
        offset == [i \in 1..n |-> 24 + Len(Concat(SubSeq(stored, 1, i - 1)))]
        index_offset == 24 + Len(body)
        record == [i \in 1..n |->
                     U32(i) \o U32(offset[i]) \o U32(Len(stored[i]))
                     \o U32(d.entries[i].original_length) \o U32(0)
                     \o U32(d.entries[i].crc)
                     \o U16(IF d.shape = "bad_compression" /\ i = n THEN 3
                            ELSE d.entries[i].compression)
                     \o U16(d.entries[i].flag)]
        index == IF expk THEN KeysDecrypt(Concat(record)) ELSE Concat(record)
        nxfn == IF d.encryption_mode # 256 THEN <<>>
                ELSE [k \in 1..16 |-> 0]
                     \o Concat([k \in 1..Len(d.names) |-> d.names[k] \o <<0>>])
        sig == IF expk THEN b_EXPK
               ELSE IF d.shape = "JUNK" THEN <<74, 85, 78, 75>> ELSE b_NXPK
        file == sig \o U32(n) \o U32(0) \o U32(d.encryption_mode)
                \o U32(0) \o U32(index_offset) \o body \o index \o nxfn
    IN  IF d.shape = "cut_header" THEN SubSeq(file, 1, 10)
        ELSE IF d.shape = "cut_index" THEN SubSeq(file, 1, index_offset + 28 * n - 3)
        ELSE file

\* ------------------------------------------------------------------------
\* process_single_npk_file -> NPKExtractor.unpack
\* ------------------------------------------------------------------------

\* (total_files - i) / total_files * 100: counts what is left
entry_progress_left(i, total_files) ==
    [num |-> (total_files - i) * 100, den |-> total_files]

\* i / total_files * 100: the enumerate index without the + 1
entry_progress_from_zero(i, total_files) == [num |-> i * 100, den |-> total_files]

\* (i + 1) / total_files * 100 of line 185, as the fraction num / den
entry_progress(i, total_files) == [num |-> (i + 1) * 100, den |-> total_files]

\* NPKExtractor.__init__ and the state before unpack is entered
UnpackStart ==
    /\ input \in Descriptors
    /\ npk = Build(input)
    /\ no_nxfn \in BOOLEAN
    /\ delete_compressed \in BOOLEAN
    /\ pc = "start"
    /\ f_pos = 0
    /\ ftype = None
    /\ index_table = <<>>
    /\ sub_i = 0
    /\ tasks = <<>>
    /\ yielded = {}
    /\ progress = <<>>
    /\ caught = ""
    /\ escaped = ""
    /\ disk = EmptyFs

\* process_single_npk_file creates output_dir and calls unpack, which opens
\* the container and reads header, NXFN list and index table (lines 65-81);
\* an exception there is handled by lines 86-91
UnpackBegin ==
    /\ pc = "start"
    /\ \E p \in {parse_container(npk)}, rm \in {rmdir([disk EXCEPT !.out = TRUE])} :
           IF p.raised # ""
           THEN /\ caught' = p.raised
                /\ disk' = rm.fs
                /\ escaped' = rm.raised
                /\ pc' = IF rm.raised = "" THEN "returned" ELSE "raised"
                /\ f_pos' = p.pos
                /\ UNCHANGED <<ftype, index_table, tasks>>
           ELSE /\ ftype' = p.file_type
                /\ index_table' = p.table
                /\ tasks' = [i \in 1..Len(p.table) |-> NoTask]
                /\ disk' = [disk EXCEPT !.out = TRUE]
                /\ f_pos' = p.pos
                /\ pc' = IF p.table = <<>> THEN "collect" ELSE "submit"
                /\ UNCHANGED <<caught, escaped>>
    /\ UNCHANGED <<input, npk, no_nxfn, delete_compressed, sub_i, yielded, progress>>
    /\ UNCHANGED <<rotorVars, scrVars, multiVars, sniffVars, createVars>>

\* Submit reading at the handle's current position, without the seek of
\* line 169
Submit_without_seek ==
    /\ pc = "submit"
    /\ sub_i < Len(index_table)
    /\ LET file_info == index_table[sub_i + 1]
           raw == PySlice(npk, f_pos, f_pos + file_info.length)
           data == IF ftype = "EXPK" THEN KeysDecrypt(raw) ELSE raw
       IN  /\ tasks' = [tasks EXCEPT ![sub_i + 1] =
                            [NoTask EXCEPT !.st = "queued", !.data = data]]
           /\ f_pos' = AfterRead(Len(npk), f_pos, file_info.length)
    /\ sub_i' = sub_i + 1
    /\ pc' = IF sub_i + 1 = Len(index_table) THEN "collect" ELSE "submit"
    /\ UNCHANGED <<input, npk, no_nxfn, delete_compressed, ftype, index_table,
                   yielded, progress, caught, escaped, disk>>
    /\ UNCHANGED <<rotorVars, scrVars, multiVars, sniffVars, createVars>>

\* one iteration of the loop of lines 168-180: the driver seeks and reads the
\* payload and submits the task
Submit ==
    /\ pc = "submit"
    /\ sub_i < Len(index_table)
    /\ LET file_info == index_table[sub_i + 1]
           raw == PySlice(npk, file_info.offset, file_info.offset + file_info.length)
           data == IF ftype = "EXPK" THEN KeysDecrypt(raw) ELSE raw
       IN  /\ tasks' = [tasks EXCEPT ![sub_i + 1] =
                            [NoTask EXCEPT !.st = "queued", !.data = data]]
           /\ f_pos' = AfterRead(Len(npk), file_info.offset, file_info.length)
    /\ sub_i' = sub_i + 1
    /\ pc' = IF sub_i + 1 = Len(index_table) THEN "collect" ELSE "submit"
    /\ UNCHANGED <<input, npk, no_nxfn, delete_compressed, ftype, index_table,
                   yielded, progress, caught, escaped, disk>>
    /\ UNCHANGED <<rotorVars, scrVars, multiVars, sniffVars, createVars>>

Running == {i \in 1..Len(tasks) : tasks[i].st \in {"zst2", "zip2", "zip3"}}

\* a pool thread takes the oldest queued task when fewer than max_workers run
CanStart(i) ==
    /\ tasks[i].st = "queued"
    /\ \A j \in 1..(i - 1) : tasks[j].st # "queued"
    /\ Cardinality(Running) < max_workers

\* a pool thread runs _process_and_save_file of task i up to its next file
\* operation
WorkerStep ==
    /\ pc \in {"submit", "collect", "unwind"}
    /\ \E i \in 1..Len(tasks) :
        \/ /\ CanStart(i)
           /\ \E tool \in ToolOutcomes :
                \E r \in {task_begin(tasks[i], index_table[i], i - 1, disk, tool)} :
                    /\ tool = "ok" \/ r.task.ext0 = "nxs3"
                    /\ tasks' = [tasks EXCEPT ![i] = r.task]
                    /\ disk' = r.fs
        \/ /\ i \in Running
           /\ \E r \in {task_continue(tasks[i], disk)} :
                /\ tasks' = [tasks EXCEPT ![i] = r.task]
                /\ disk' = r.fs
    /\ UNCHANGED <<input, npk, no_nxfn, delete_compressed, pc, f_pos, ftype,
                   index_table, sub_i, yielded, progress, caught, escaped>>
    /\ UNCHANGED <<rotorVars, scrVars, multiVars, sniffVars, createVars>>

\* one iteration of the loop of lines 182-185: as_completed yields a finished
\* future; future.result() re-raises what the task raised
Collect ==
    /\ pc = "collect"
    /\ \E i \in 1..Len(tasks) :
        /\ i \notin yielded
        /\ tasks[i].st \in {"done", "failed"}
        /\ yielded' = yielded \cup {i}
        /\ IF tasks[i].st = "failed"
           THEN /\ caught' = tasks[i].exc
                /\ pc' = "unwind"
                /\ UNCHANGED progress
           ELSE /\ progress' = Append(progress,
                                      entry_progress(Cardinality(yielded), Len(tasks)))
                /\ UNCHANGED <<caught, pc>>
    /\ UNCHANGED <<input, npk, no_nxfn, delete_compressed, f_pos, ftype,
                   index_table, sub_i, tasks, escaped, disk>>
    /\ UNCHANGED <<rotorVars, scrVars, multiVars, sniffVars, createVars>>

\* every future was yielded: the pool shuts down and unpack returns
UnpackReturn ==
    /\ pc = "collect"
    /\ yielded = 1..Len(tasks)
    /\ pc' = "returned"
    /\ UNCHANGED <<input, npk, no_nxfn, delete_compressed, f_pos, ftype,
                   index_table, sub_i, tasks, yielded, progress, caught, escaped, disk>>
    /\ UNCHANGED <<rotorVars, scrVars, multiVars, sniffVars, createVars>>

\* an exception left the loop: the `with` block waits for every task, then
\* the handler of lines 86-91 removes output_dir
Unwind ==
    /\ pc = "unwind"
    /\ \A i \in 1..Len(tasks) : tasks[i].st \in {"done", "failed"}
    /\ \E rm \in {rmdir(disk)} :
           /\ disk' = rm.fs
           /\ escaped' = rm.raised
           /\ pc' = IF rm.raised = "" THEN "returned" ELSE "raised"
    /\ UNCHANGED <<input, npk, no_nxfn, delete_compressed, f_pos, ftype,
                   index_table, sub_i, tasks, yielded, progress, caught>>
    /\ UNCHANGED <<rotorVars, scrVars, multiVars, sniffVars, createVars>>

Init == NewRotor /\ ScrIdle /\ UnpackStart /\ MultiIdle /\ SniffIdle /\ CreateIdle

Next == UnpackBegin \/ Submit \/ WorkerStep \/ Collect \/ UnpackReturn \/ Unwind

Spec == Init /\ [][Next]_vars


\* ------------------------------------------------------------------------
\* process_multiple_npk_files
\* ------------------------------------------------------------------------

\* pbar.n / total_files * 100 of line 479, as the fraction num / den
aggregate_progress(n, total_files) == [num |-> n * 100, den |-> total_files]

\* state of the future of npk_files[k]: the first container is the unpack
\* run of this model, the others are runs of the same function of which
\* only the outcome is kept
child_state(k) ==
    IF k = 1 THEN (IF pc \in {"returned", "raised"} THEN pc ELSE "running")
    ELSE m_child[k]

\* lines 458-474: total_files containers were submitted to the process pool
MultiStart ==
    /\ m_total \in 1..MaxFiles
    /\ m_child = [k \in 2..m_total |-> "running"]
    /\ m_yielded = {}
    /\ m_n = 0
    /\ m_progress = <<>>
    /\ m_pc = "collect"

\* process_single_npk_file of another container ends in its process:
\* unpack returned, or an exception left it
ChildFinish ==
    /\ m_pc \in {"collect", "unwind"}
    /\ \E k \in 2..m_total :
        /\ m_child[k] = "running"
        /\ \E outcome \in {"returned", "raised"} :
             m_child' = [m_child EXCEPT ![k] = outcome]
    /\ UNCHANGED <<m_total, m_yielded, m_n, m_progress, m_pc>>
    /\ UNCHANGED <<rotorVars, scrVars, unpackVars, sniffVars, createVars>>

\* one iteration of the loop of lines 475-479: as_completed yields a
\* finished future; future.result() re-raises what the child raised
MultiCollect ==
    /\ m_pc = "collect"
    /\ \E k \in 1..m_total :
        /\ k \notin m_yielded
        /\ child_state(k) # "running"
        /\ m_yielded' = m_yielded \cup {k}
        /\ IF child_state(k) = "raised"
           THEN /\ m_pc' = "unwind"
                /\ UNCHANGED <<m_n, m_progress>>
           ELSE /\ m_n' = m_n + 1
                /\ m_progress' = Append(m_progress,
                                        aggregate_progress(m_n + 1, m_total))
                /\ UNCHANGED m_pc
    /\ UNCHANGED <<m_total, m_child>>
    /\ UNCHANGED <<rotorVars, scrVars, unpackVars, sniffVars, createVars>>

\* every future was yielded: the pool shuts down and the function returns
MultiReturn ==
    /\ m_pc = "collect"
    /\ m_yielded = 1..m_total
    /\ m_pc' = "returned"
    /\ UNCHANGED <<m_total, m_child, m_yielded, m_n, m_progress>>
    /\ UNCHANGED <<rotorVars, scrVars, unpackVars, sniffVars, createVars>>

\* an exception left the loop: the `with` block of line 460 waits for every
\* child, then the exception leaves process_multiple_npk_files
MultiUnwind ==
    /\ m_pc = "unwind"
    /\ \A k \in 1..m_total : child_state(k) # "running"
    /\ m_pc' = "raised"
    /\ UNCHANGED <<m_total, m_child, m_yielded, m_n, m_progress>>
    /\ UNCHANGED <<rotorVars, scrVars, unpackVars, sniffVars, createVars>>

\* the batches explored hold containers without an NXFN table, extracted
\* with the default no_nxfn = False
MultiInit ==
    /\ NewRotor /\ ScrIdle /\ UnpackStart /\ MultiStart /\ SniffIdle /\ CreateIdle
    /\ input.encryption_mode = 0
    /\ no_nxfn = FALSE

MultiNext ==
    \/ UnpackBegin \/ Submit \/ WorkerStep \/ Collect \/ UnpackReturn \/ Unwind
    \/ ChildFinish \/ MultiCollect \/ MultiReturn \/ MultiUnwind

SpecMulti == MultiInit /\ [][MultiNext]_vars


\* ------------------------------------------------------------------------
\* Claims
\* ------------------------------------------------------------------------


\* ---------------------------------------------------------------------------
\* RotorFactory.create on every size from 2 to RotorSize and every rand
\* ---------------------------------------------------------------------------

CreateStart ==
    /\ c_size \in 2..RotorSize
    /\ c_draws \in CreateDraws(c_size)
    /\ c_rotor = None
    /\ c_pc = "in"

CreateInit == NewRotor /\ ScrIdle /\ UnpackIdle /\ MultiIdle /\ SniffIdle /\ CreateStart

\* rotor = RotorFactory.create(size, rand)
Create ==
    /\ c_pc = "in"
    /\ c_rotor' = create(c_size, c_draws)
    /\ c_pc' = "out"
    /\ UNCHANGED <<c_size, c_draws, rotorVars, scrVars, unpackVars, multiVars, sniffVars>>

CreateNext == Create

SpecCreate == CreateInit /\ [][CreateNext]_vars

\* ---------------------------------------------------------------------------
\* get_file_extension on the rows of its prefix table
\* ---------------------------------------------------------------------------

\* `n` zero bytes
Zeros(n) == [k \in 1..n |-> 0]

\* the prefix of row `row`, padded with zero bytes to `n` bytes
Padded(row, n) == extension_map[row][1] \o Zeros(n - Len(extension_map[row][1]))

SniffStart ==
    /\ sn_row \in 1..Len(extension_map)
    /\ \E n \in Len(extension_map[sn_row][1])..PadTo : sn_data = Padded(sn_row, n)
    /\ sn_ext = None
    /\ sn_pc = "in"

SniffInit == NewRotor /\ ScrIdle /\ UnpackIdle /\ MultiIdle /\ SniffStart /\ CreateIdle

\* ext = get_file_extension(data)
Sniff ==
    /\ sn_pc = "in"
    /\ sn_ext' = get_file_extension(sn_data)
    /\ sn_pc' = "out"
    /\ UNCHANGED <<sn_row, sn_data, rotorVars, scrVars, unpackVars, multiVars, createVars>>

SniffNext == Sniff

SpecSniff == SniffInit /\ [][SniffNext]_vars

\* ---------------------------------------------------------------------------
\* unpack on containers of one entry, over the fields that steer
\* _process_file_data
\* ---------------------------------------------------------------------------

p_rot == <<29, 4, 1>>                     \* a buffer that sniffs as "rot"

PipelinePayloads == {p_hello, p_zlib_json, p_lz4, p_rot, p_nxs3, p_zst}

\* the bytes stored for payload p under flag f: the scramble codecs undo
\* themselves, so these are p scrambled
stored_payload(p, f, crc, original_length) ==
    IF f \in {3, 4}
    THEN decrypt_file_data(p, [flag |-> f, crc |-> crc,
                               original_length |-> original_length,
                               length |-> Len(p)]).data
    ELSE p

PipelineKinds ==
    {[payload |-> stored_payload(p, f, crc, 10), compression |-> c, flag |-> f,
      crc |-> crc, original_length |-> 10] :
        p \in PipelinePayloads, c \in {0, 1, 2}, f \in {0, 3, 4}, crc \in {0, 47}}

EntryDescriptors ==
    {[shape |-> "NXPK", encryption_mode |-> 0, names |-> <<>>, entries |-> <<e>>] :
        e \in PipelineKinds}

EntryStart ==
    /\ input \in EntryDescriptors
    /\ npk = Build(input)
    /\ no_nxfn \in BOOLEAN
    /\ delete_compressed \in BOOLEAN
    /\ pc = "start"
    /\ f_pos = 0
    /\ ftype = None
    /\ index_table = <<>>
    /\ sub_i = 0
    /\ tasks = <<>>
    /\ yielded = {}
    /\ progress = <<>>
    /\ caught = ""
    /\ escaped = ""
    /\ disk = EmptyFs

EntryInit == NewRotor /\ ScrIdle /\ EntryStart /\ MultiIdle /\ SniffIdle /\ CreateIdle

SpecEntry == EntryInit /\ [][Next]_vars

\* C1: for any key and any buffer B, decrypt(encrypt(B)) returns B and
\* neither call raises.
RotorRoundTrip ==
    /\ r_pc # "raised"
    /\ r_pc = "decrypted" => r_dec.out = r_buf

\* C2: if the pipeline of one entry raised, unpack still returns normally,
\* the output directory is kept and every other entry is written.
EntryFailureNonFatal ==
    (/\ pc \in {"returned", "raised"}
     /\ \E i \in 1..Len(tasks) : tasks[i].st = "failed")
    => /\ pc = "returned"
       /\ escaped = ""
       /\ disk.out
       /\ \A j \in 1..Len(tasks) :
            tasks[j].st = "failed" \/ (tasks[j].st = "done" /\ IsFile(disk, tasks[j].path))

\* C3: when the signature is not NXPK/EXPK or a header/index read hits EOF,
\* unpack submits no entry, writes no file, removes the output directory and
\* returns without raising.
HeaderIndexFailureAborts ==
    (input.shape \in {"JUNK", "cut_header", "cut_index"} /\ pc # "start")
    => /\ pc = "returned"
       /\ caught # ""
       /\ escaped = ""
       /\ sub_i = 0
       /\ \A i \in 1..Len(tasks) : tasks[i].st = "none"
       /\ disk = EmptyFs

\* a container cut inside its second index record was handed to unpack, which
\* has returned
HeaderIndexFailureAbortsWitness ==
    /\ input.shape = "cut_index"
    /\ Len(input.entries) = 2
    /\ pc = "returned"
    /\ caught = "struct.error"

\* C4: in any run of unpack and of process_multiple_npk_files, under every
\* completion order, each value handed to the progress callback lies in
\* [0, 100] and is not below the value handed over before it.
ProgressMonotoneBounded ==
    \A ps \in {progress, m_progress} :
        /\ \A k \in 1..Len(ps) :
              /\ ps[k].den > 0
              /\ 0 <= ps[k].num
              /\ ps[k].num <= 100 * ps[k].den
        /\ \A k \in 2..Len(ps) :
              ps[k - 1].num * ps[k].den <= ps[k].num * ps[k - 1].den

\* a container of two entries and a batch of two containers both ran to the
\* end, each callback having been called twice
ProgressMonotoneBoundedWitness ==
    /\ pc = "returned"
    /\ m_pc = "returned"
    /\ Len(progress) = 2
    /\ Len(m_progress) = 2
    /\ progress[1].num < progress[2].num
    /\ m_progress[1].num < m_progress[2].num

\* C5: within one container no two entries are written to the same output
\* path; equal NXFN names surface a collision error instead.
OutputPathsUnique ==
    \A i, j \in 1..Len(tasks) :
        i # j => tasks[i].wrote \cap tasks[j].wrote = {}

\* C6: with encryption_mode 256 and an NXFN list of k names, 0 < k <
\* file_count, the index is decoded, entries below k get their NXFN names and
\* the others a synthetic name.
ShortNxfnTableDecoded ==
    (/\ input.shape \in {"NXPK", "EXPK"}
     /\ input.encryption_mode = 256
     /\ 0 < Len(input.names)
     /\ Len(input.names) < Len(input.entries)
     /\ pc # "start")
    => /\ caught # "IndexError"
       /\ Len(index_table) = Len(input.entries)
       /\ \A i \in 1..Len(index_table) :
            index_table[i].structure =
                IF i <= Len(input.names) THEN <<input.names[i]>> ELSE <<>>

\* C7: once an entry whose final extension is zst is saved, the final path
\* holds the decompressed payload; without delete_compressed the final path
\* with ".zst" appended holds the raw frame, with it no such file exists.
ZstSink ==
    \A i \in 1..Len(tasks) :
        (/\ tasks[i].st = "done"
         /\ tasks[i].ext = "zst"
         /\ \A j \in 1..Len(tasks) : j # i => tasks[j].st \in {"none", "queued"})
        => LET final == tasks[i].path
               raw == [final EXCEPT ![Len(final)] = @ \o <<46, 122, 115, 116>>]
           IN  /\ IsFile(disk, final)
               /\ FileData(disk, final) = zstd_decompress(tasks[i].data).data
               /\ IF delete_compressed THEN ~IsFile(disk, raw)
                  ELSE /\ IsFile(disk, raw)
                       /\ FileData(disk, raw) = tasks[i].data

\* C8: for a valid header with file_count = 0 the output directory does not
\* exist once unpack has returned.
EmptyContainerDirRemoved ==
    (/\ input.shape \in {"NXPK", "EXPK"}
     /\ input.entries = <<>>
     /\ pc = "returned")
    => ~disk.out

\* C9: when de_nxs3 exits non-zero or writes no output for an entry sniffed
\* as nxs3, the entry does not fail and the raw buffer is written at its path.
Nxs3GracefulDegradation ==
    \A i \in 1..Len(tasks) :
        (/\ tasks[i].ext0 = "nxs3"
         /\ tasks[i].tool \in {"nonzero_exit", "no_output"}
         /\ \A j \in 1..Len(tasks) : j # i => tasks[j].st \in {"none", "queued"})
        => /\ tasks[i].st = "done"
           /\ IsFile(disk, tasks[i].path)
           /\ FileData(disk, tasks[i].path) = tasks[i].data

\* C10: for flag 3 and flag 4, every (crc, original_length, length) and every
\* buffer of `length` bytes, applying _decrypt_file_data twice with the same
\* record returns the original buffer.
ScrambleInvolution ==
    /\ s_pc # "raised"
    /\ s_pc = "twice" => s_twice.data = s_data

\* flag 3 was applied twice to a buffer longer than 0x80 bytes, and the first
\* application changed it
ScrambleInvolutionWitness ==
    /\ s_pc = "twice"
    /\ s_once.data # s_data
    /\ s_info.length > 128
    /\ s_info.flag = 3


\* C11: for every row of the prefix table, get_file_extension applied to the
\* row's prefix padded with zero bytes (to any length up to PadTo, 32 included)
\* returns the row's extension: no earlier rule shadows a row.
SnifferTableRows ==
    sn_pc = "out" => sn_ext = extension_map[sn_row][2]

\* the second zip row, padded to 32 bytes, has been sniffed as "zip"
SnifferTableRowsWitness ==
    /\ sn_pc = "out"
    /\ sn_row = 22
    /\ Len(sn_data) = 32
    /\ sn_data[5] = 0
    /\ sn_ext = "zip"

\* the parts of a path below output_dir, joined with '/'
RECURSIVE JoinPath(_)
JoinPath(parts) ==
    IF parts = <<>> THEN <<>>
    ELSE IF Len(parts) = 1 THEN parts[1]
    ELSE parts[1] \o <<47>> \o JoinPath(Tail(parts))

\* a structural name with every backslash replaced by '/'
Slashed(name) == [k \in 1..Len(name) |-> IF name[k] = 92 THEN 47 ELSE name[k]]

\* the path, below output_dir, the claim gives entry i
NamedPath(i) ==
    IF index_table[i].structure # <<>> /\ ~no_nxfn
    THEN Slashed(index_table[i].structure[1])
    ELSE synthetic_name(i - 1, get_file_extension(tasks[i].data))

\* C12: an entry is written at <base>/<structural name with '/' for every
\* backslash> exactly when it has an NXFN name and no_nxfn is not set, and at
\* <base>/'{index:08}.{ext}' otherwise, index being its position in the index
\* table and ext the sniff of the final buffer.
EntryNaming ==
    \A i \in 1..Len(tasks) :
        /\ tasks[i].path # <<>> => JoinPath(tasks[i].path) = NamedPath(i)
        /\ tasks[i].st = "done" => /\ tasks[i].path # <<>>
                                   /\ tasks[i].path \in tasks[i].wrote

\* the first entry, named a\b.png, was written at a/b.png while its payload
\* sniffs as json
EntryNamingWitness ==
    /\ pc = "returned"
    /\ Len(tasks) >= 1
    /\ tasks[1].st = "done"
    /\ ~no_nxfn
    /\ index_table[1].structure = <<n_a_b_png>>
    /\ tasks[1].ext = "json"
    /\ tasks[1].path = <<<<97>>, <<98, 46, 112, 110, 103>>>>
    /\ IsFile(disk, tasks[1].path)

\* the half-open range of indices lines 218-227 (flag 3: start, start + size)
\* and lines 234-247 (flag 4: offset, min(offset + run, original_length)) give
\* the loops of _decrypt_file_data
scramble_range(file_info) ==
    IF file_info.flag = 3
    THEN IF file_info.length > 128
         THEN [lo |-> (file_info.crc \div 2) % (file_info.length - 128),
               hi |-> ((file_info.crc \div 2) % (file_info.length - 128))
                      + ((2 * file_info.original_length) % 96) + 32]
         ELSE [lo |-> 0, hi |-> file_info.length]
    ELSE IF file_info.length >= 129
         THEN [lo |-> (file_info.original_length \div 2) % (file_info.length - 128),
               hi |-> Min(((file_info.original_length \div 2) % (file_info.length - 128))
                          + ((file_info.crc * 2) % 96) + 32,
                          file_info.original_length)]
         ELSE [lo |-> 0, hi |-> Min(file_info.length, file_info.original_length)]

\* C13: for flag 3 and flag 4, every crc, original_length and length, on a
\* buffer of exactly `length` bytes the codec raises no IndexError: the range
\* it walks ends at or before `length` (start + size <= length for flag 3,
\* min(offset + run, original_length) <= length for flag 4) and no byte
\* outside that range is changed.
ScrambleInBounds ==
    s_pc # "in" =>
        /\ s_once.raised = ""
        /\ Len(s_once.data) = s_info.length
        /\ scramble_range(s_info).lo >= 0
        /\ scramble_range(s_info).hi <= s_info.length
        /\ \A k \in 1..s_info.length :
               s_once.data[k] # s_data[k] =>
                   /\ k - 1 >= scramble_range(s_info).lo
                   /\ k - 1 < scramble_range(s_info).hi

\* flag 4 on a 250-byte buffer walked a range that starts after index 0 and
\* changed a byte there
ScrambleInBoundsWitness ==
    /\ s_pc = "once"
    /\ s_info.flag = 4
    /\ s_info.length = 250
    /\ scramble_range(s_info).lo > 0
    /\ scramble_range(s_info).hi > scramble_range(s_info).lo
    /\ s_once.data[scramble_range(s_info).lo + 1] # s_data[scramble_range(s_info).lo + 1]

\* The per-byte substitution the claim describes: rotor i is used with its
\* own position pos_i (rs[k] is rotor k - 1, as RotorFactory.create returned
\* it: erotor is E_i, drotor its inverse D_i).
RECURSIVE reference_encrypt_byte(_, _, _, _)
reference_encrypt_byte(c, rs, pos, k) ==
    IF k > Len(rs) THEN c
    ELSE reference_encrypt_byte(PyGet(rs[k].erotor, Xor(c, PyGet(pos, k - 1))),
                                rs, pos, k + 1)

RECURSIVE reference_decrypt_byte(_, _, _, _)
reference_decrypt_byte(c, rs, pos, k) ==
    IF k < 1 THEN c
    ELSE reference_decrypt_byte(Xor(PyGet(pos, k - 1), PyGet(rs[k].drotor, c)),
                                rs, pos, k - 1)

\* the claim's advance with carry, rotor by rotor
RECURSIVE reference_advance(_, _, _, _, _)
reference_advance(pos, rs, sz, i, carry) ==
    IF i >= Len(rs) THEN pos
    ELSE reference_advance(
             PySet(pos, i, (PyGet(pos, i) + rs[i + 1].increment + carry) % sz),
             rs, sz, i + 1,
             IF PyGet(pos, i) + rs[i + 1].increment + carry >= sz THEN 1 ELSE 0)

\* the bytes the claim's procedure emits for buffer[k..]
RECURSIVE reference_crypt(_, _, _, _, _, _)
reference_crypt(buffer, k, do_decrypt, sz, rs, pos) ==
    IF k > Len(buffer) THEN <<>>
    ELSE <<IF do_decrypt THEN reference_decrypt_byte(buffer[k], rs, pos, Len(rs))
           ELSE reference_encrypt_byte(buffer[k], rs, pos, 1)>>
         \o reference_crypt(buffer, k + 1, do_decrypt, sz, rs,
                            reference_advance(pos, rs, sz, 0, 0))

\* C14: encrypt applies c <- E_i[c XOR pos_i] for i = 0..n_rotors-1 with rotor
\* i's own position, decrypt applies c <- pos_i XOR D_i[c] for i =
\* n_rotors-1..0, and positions advance with carry after each byte: what
\* encrypt and decrypt return is what this procedure emits.
RotorSubstitutionMatchesReference ==
    /\ r_pc # "new" =>
           /\ r_enc.raised = ""
           /\ r_enc.out = reference_crypt(r_buf, 1, FALSE, rotors.size,
                                          rotors.e_rotors, rotors.positions)
    /\ r_pc = "decrypted" =>
           /\ r_dec.raised = ""
           /\ r_dec.out = reference_crypt(r_enc.out, 1, TRUE, rotors.size,
                                          rotors.e_rotors, rotors.positions)

\* C15: for any rand with rand(n) in [0, n), RotorFactory.create(size, rand)
\* returns tables where erotor on [0, size) is a permutation of [0, size),
\* drotor[erotor[i]] = i for every i in [0, size), increment is odd and in
\* [1, size), and slot `size` of both tables holds increment.
RotorConstruction ==
    c_pc = "out" =>
        /\ c_rotor.size = c_size
        /\ Len(c_rotor.erotor) = c_size + 1
        /\ Len(c_rotor.drotor) = c_size + 1
        /\ {PyGet(c_rotor.erotor, i) : i \in 0..(c_size - 1)} = 0..(c_size - 1)
        /\ \A i \in 0..(c_size - 1) :
               PyGet(c_rotor.drotor, PyGet(c_rotor.erotor, i)) = i
        /\ c_rotor.increment % 2 = 1
        /\ c_rotor.increment >= 1
        /\ c_rotor.increment < c_size
        /\ PyGet(c_rotor.erotor, c_size) = c_rotor.increment
        /\ PyGet(c_rotor.drotor, c_size) = c_rotor.increment

\* a rotor of size RotorSize was made whose erotor moves 0 and 1 and whose
\* increment is 3
RotorConstructionWitness ==
    /\ c_pc = "out"
    /\ c_size = RotorSize
    /\ PyGet(c_rotor.erotor, 0) # 0
    /\ PyGet(c_rotor.erotor, 1) # 1
    /\ c_rotor.increment = 3

\* s is t cut after some element
IsPrefix(s, t) == Len(s) <= Len(t) /\ s = SubSeq(t, 1, Len(s))

\* the stages the claim gives entry i, whose first sniff was tasks[i].ext0
ExpectedStages(i) ==
    (IF index_table[i].flag \in {3, 4} THEN <<"scramble">> ELSE <<>>)
    \o <<"sniff">>
    \o (IF tasks[i].ext0 = "rot" THEN <<"rot">>
        ELSE IF tasks[i].ext0 = "nxs3" THEN <<"nxs3">> ELSE <<>>)
    \o (IF tasks[i].ext0 # "rot" /\ index_table[i].compression_type # 0
        THEN <<"decompress">> ELSE <<>>)
    \o <<"final_sniff">>

\* C16: for every entry the stages run in the order scramble (only if flag in
\* {3,4}) -> sniff -> rotor unwrap or nxs3 decode (never both) -> declared
\* decompression -> final sniff -> write; an entry that went through the rotor
\* unwrap never has the declared decompression applied, every other entry with
\* compression != NONE always has it.  The sequence is cut short only where a
\* decompressor rejects the bytes it is given.
PipelineStageGating ==
    \A i \in 1..Len(tasks) :
        tasks[i].st \notin {"none", "queued"} =>
            /\ IsPrefix(tasks[i].stages, ExpectedStages(i))
            /\ tasks[i].stages # ExpectedStages(i) =>
                   tasks[i].exc \in {"zlib.error", "LZ4BlockError"}
            /\ tasks[i].st \in {"done", "zst2", "zip2", "zip3"} =>
                   tasks[i].wrote # {}

\* the bytes of the container at record i's own offset, decrypted for EXPK
OwnPayload(i) ==
    IF ftype = "EXPK"
    THEN KeysDecrypt(PySlice(npk, index_table[i].offset,
                             index_table[i].offset + index_table[i].length))
    ELSE PySlice(npk, index_table[i].offset,
                 index_table[i].offset + index_table[i].length)

\* C17: in every interleaving the driver alone seeks and reads the container
\* handle, in index order; a worker is handed the bytes already read, which
\* are the bytes at its record's own offset, and never moves the handle.
FileHandleConfinement ==
    /\ \A i \in 1..Len(tasks) : tasks[i].st # "none" <=> i <= sub_i
    /\ \A i \in 1..Len(tasks) : tasks[i].st = "queued" => tasks[i].data = OwnPayload(i)
    /\ sub_i > 0 =>
           f_pos = AfterRead(Len(npk), index_table[sub_i].offset,
                             index_table[sub_i].length)

\* a worker finished entry 1 between the driver's two reads; entry 2 waits
\* with the bytes of its own offset
FileHandleConfinementWitness ==
    /\ Len(tasks) = 2
    /\ tasks[1].st = "done"
    /\ tasks[2].st = "queued"
    /\ index_table[2].offset > index_table[1].offset
    /\ tasks[2].data = p_zlib_json
    /\ f_pos = index_table[2].offset + 4

\* C18: if an index record carries a compression field outside {0, 1, 2},
\* decoding raises during _read_index_table: no entry of the container, the
\* records with valid fields before it included, is read or submitted, nothing
\* is written, and unpack removes the output directory.
IndexDecodingAllOrNothing ==
    (input.shape = "bad_compression" /\ pc # "start")
    => /\ caught \in {"ValueError", "IndexError"}
       /\ Len(input.names) >= Len(input.entries) \/ input.names = <<>>
              => caught = "ValueError"
       /\ index_table = <<>>
       /\ tasks = <<>>
       /\ sub_i = 0
       /\ progress = <<>>
       /\ disk.files = {}
       /\ ~disk.out
       /\ pc = "returned"
       /\ escaped = ""

\* unpack returned from a container of two records, the first with valid
\* fields and the second with compression 3
IndexDecodingAllOrNothingWitness ==
    /\ input.shape = "bad_compression"
    /\ Len(input.entries) = 2
    /\ input.entries[1].compression = 1
    /\ pc = "returned"
    /\ caught = "ValueError"

\* C19: for a container of n > 0 entries whose pipelines all succeed, under
\* every completion order the progress callback is called exactly n times,
\* its k-th call carries k / n * 100 whichever entry finished k-th, the last
\* call carries 100, and no call is made before every payload was read and
\* submitted.
ProgressComplete ==
    /\ \A k \in 1..Len(progress) :
           progress[k] = [num |-> k * 100, den |-> Len(index_table)]
    /\ Len(progress) <= Cardinality(yielded)
    /\ progress # <<>> => /\ sub_i = Len(index_table)
                          /\ \A i \in 1..Len(tasks) : tasks[i].st # "none"
    /\ (/\ pc = "returned"
        /\ tasks # <<>>
        /\ \A i \in 1..Len(tasks) : tasks[i].st = "done")
       => /\ Len(progress) = Len(tasks)
          /\ progress[Len(progress)].num = 100 * progress[Len(progress)].den

\* of two entries that both succeed the second was yielded first, and the
\* first call of the callback carried 1/2 * 100
ProgressCompleteWitness ==
    /\ Len(tasks) = 2
    /\ tasks[1].st = "done"
    /\ tasks[2].st = "done"
    /\ yielded = {2}
    /\ progress = <<[num |-> 100, den |-> 2]>>

====
